---- MODULE Spec2Model ----
(***************************************************************************)
(* Model of brains/continuous_time_rnn.py (class ContinuousTimeRNN) and of *)
(* the validation loop of visualization.py.                                *)
(*                                                                         *)
(* Real numbers are fixed-point integers in units of 1/Scale (1.0 is      *)
(* Scale).  Boolean masks are shape-carrying matrices; the scipy CSR       *)
(* matrices V, W, T are kept as their shape, the row-major list of their   *)
(* stored positions and their data array.                                  *)
(***************************************************************************)
EXTENDS Integers, Sequences, FiniteSets, TLC

VARIABLES
    config,          \* ContinuousTimeRNNCfg(**configuration)
    number_inputs,   \* environment observation size
    number_outputs,  \* environment action size
    brain_state,     \* the brain state dict (three masks)
    individual,      \* the genome handed to the constructor
    constructed,     \* TRUE once __init__ returned a controller
    V, W, T,         \* self.V, self.W, self.T
    x,               \* self.x
    y,               \* value returned by the last successful step
    outcome,         \* "ok" or the exception of the last call
    last_op,         \* name of the last call
    files,           \* file system: file name -> npz content
    path,            \* path argument of the last save / load
    saved_path,      \* path argument of the last save_brain_state
    saved_bs,        \* brain state argument of the last save_brain_state
    loaded,          \* value returned by the last load_brain_state
    usage,           \* value returned by get_free_parameter_usage
    individual_size, \* value returned by get_individual_size
    pre_x,           \* self.x as it was when the last call started
    u_arg,           \* argument of the last call, when it was a step
    ep_in,           \* step inputs since the last reset
    ep_out,          \* step outputs since the last reset
    ref_in,          \* inputs of a recorded earlier reset-then-steps run
    ref_out          \* outputs of that recorded run

vars == <<config, number_inputs, number_outputs, brain_state, individual,
          constructed, V, W, T, x, y, outcome, last_op, files, path,
          saved_path, saved_bs, loaded, usage, individual_size, pre_x,
          u_arg, ep_in, ep_out, ref_in, ref_out>>

(***************************************************************************)
(* Bounds of the model.                                                    *)
(***************************************************************************)
\* fixed-point resolution: 1.0 is Scale units
Scale == 4
\* largest total number of mask cells (v + w + t) of a brain state
MaxCells == 8
\* largest number of rows or columns of a mask
MaxDim == 2
\* longest reset-then-steps run
MaxSteps == 2
\* how far the genome length may exceed the number of mask cells
MaxSlack == 1
\* number of distinct genome fillings tried per length
MaxOffset == 1


(***************************************************************************)
(* Small helpers.                                                          *)
(***************************************************************************)
Min(a, b) == IF a <= b THEN a ELSE b
Max(a, b) == IF a >= b THEN a ELSE b
Abs(a) == IF a < 0 THEN -a ELSE a

RECURSIVE SumSeq(_)
SumSeq(s) == IF s = <<>> THEN 0 ELSE Head(s) + SumSeq(Tail(s))

\* fixed-point product, rounded towards zero
FixMul(a, b) ==
    LET p == a * b
    IN  IF p >= 0 THEN p \div Scale ELSE -((-p) \div Scale)

(***************************************************************************)
(* Matrices: numpy 2-d arrays as shape plus a function on the cells.       *)
(***************************************************************************)
Cells(n, m) == (1..n) \X (1..m)

Mat(n, m, f) == [rows |-> n, cols |-> m, at |-> f]

\* np.ones((n, m), dtype=bool)
Ones(n, m) == Mat(n, m, [c \in Cells(n, m) |-> TRUE])

AllMasks(n, m) == {Mat(n, m, f) : f \in [Cells(n, m) -> BOOLEAN]}

\* np.count_nonzero
count_nonzero(mask) ==
    Cardinality({c \in Cells(mask.rows, mask.cols) : mask.at[c]})

\* np.zeros(n)
Zeros(n) == [i \in 1..n |-> 0]

EmptyMat == Mat(0, 0, <<>>)

(***************************************************************************)
(* Brain state dict.                                                       *)
(***************************************************************************)
get_brain_state_from_masks(v_mask, w_mask, t_mask) ==
    [v_mask |-> v_mask, w_mask |-> w_mask, t_mask |-> t_mask]

get_masks_from_brain_state(bs) == <<bs.v_mask, bs.w_mask, bs.t_mask>>

EmptyState == get_brain_state_from_masks(EmptyMat, EmptyMat, EmptyMat)

(***************************************************************************)
(* Mask generator.                                                         *)
(***************************************************************************)
MaskTypes == {"random", "dense"}

\* The values np.random.rand(n, m) < mask_density can take: every draw lies
\* in [0, 1), so density <= 0 gives no true entry, density >= 1 gives only
\* true entries, and anything between gives any matrix.
RandomDraws(n, m, mask_density) ==
    IF mask_density <= 0 THEN {Mat(n, m, [c \in Cells(n, m) |-> FALSE])}
    ELSE IF mask_density >= Scale THEN {Ones(n, m)}
    ELSE AllMasks(n, m)

\* The exception _generate_mask raises, or "ok".
generate_mask_outcome(mask_type, n, m, keep_main_diagonal) ==
    IF mask_type \notin MaskTypes THEN "RuntimeError"
    ELSE IF n < 0 \/ m < 0 THEN "ValueError"
    ELSE IF keep_main_diagonal /\ n # m THEN "AssertionError"
    ELSE "ok"

\* The set of matrices _generate_mask can return when it raises nothing.
\* The mask built by the two branches and the diagonal loop is dropped:
\* the return statement draws afresh.
generate_mask(mask_type, n, m, mask_density, keep_main_diagonal) ==
    LET branch == IF mask_type = "random"
                  THEN RandomDraws(n, m, mask_density)
                  ELSE {Ones(n, m)}
        mask == {IF keep_main_diagonal
                 THEN Mat(n, m, [c \in Cells(n, m) |->
                                    IF c[1] = c[2] THEN TRUE ELSE b.at[c]])
                 ELSE b : b \in branch}
    IN  RandomDraws(n, m, mask_density)

(***************************************************************************)
(* Parameter accounting.                                                   *)
(***************************************************************************)
\* an accounting that counts the recurrent mask for T as well
UsageCountsWForT(bs) ==
    LET masks == get_masks_from_brain_state(bs)
    IN  [V |-> count_nonzero(masks[1]),
         W |-> count_nonzero(masks[2]),
         T |-> count_nonzero(masks[2])]

get_free_parameter_usage(bs) ==
    LET masks == get_masks_from_brain_state(bs)
    IN  [V |-> count_nonzero(masks[1]),
         W |-> count_nonzero(masks[2]),
         T |-> count_nonzero(masks[3])]

get_individual_size(bs) ==
    LET free_parameter_usage == get_free_parameter_usage(bs)
    IN  SumSeq(<<free_parameter_usage.V, free_parameter_usage.W,
                 free_parameter_usage.T>>)

(***************************************************************************)
(* State codec: np.savez / np.load.                                        *)
(***************************************************************************)
\* A path is its sequence of name parts; the extension is the last part.
EndsWithNpz(p) == Len(p) > 0 /\ p[Len(p)] = ".npz"

\* a writer that appends .npz to every file name
SavezAlwaysAppends(p) == Append(p, ".npz")

\* np.savez appends .npz to a file name that does not end with it.
SavezFileName(p) == IF EndsWithNpz(p) THEN p ELSE Append(p, ".npz")

\* The .npy member of one array: its shape and its entries in C order.
NpyEncode(mask) ==
    [shape |-> <<mask.rows, mask.cols>>,
     data  |-> [k \in 1..(mask.rows * mask.cols) |->
                   mask.at[<<((k - 1) \div mask.cols) + 1,
                             ((k - 1) % mask.cols) + 1>>]]]

NpyDecode(npy) ==
    Mat(npy.shape[1], npy.shape[2],
        [c \in Cells(npy.shape[1], npy.shape[2]) |->
            npy.data[(c[1] - 1) * npy.shape[2] + c[2]]])

NpzEncode(bs) ==
    LET masks == get_masks_from_brain_state(bs)
    IN  [v_mask |-> NpyEncode(masks[1]),
         w_mask |-> NpyEncode(masks[2]),
         t_mask |-> NpyEncode(masks[3])]

NpzDecode(npz) ==
    get_brain_state_from_masks(NpyDecode(npz.v_mask), NpyDecode(npz.w_mask),
                               NpyDecode(npz.t_mask))

\* files is a set of [name, content] records with at most one per name.
FileNames == {f.name : f \in files}
FileContent(name) == (CHOOSE f \in files : f.name = name).content
WriteFile(name, content) ==
    {f \in files : f.name # name} \cup {[name |-> name, content |-> content]}

(***************************************************************************)
(* Configuration (ContinuousTimeRNNCfg).  The attrs class declares no      *)
(* validator and no converter: a field holds whatever the dict gives it,   *)
(* and an optional field the dict leaves out holds its default.            *)
(***************************************************************************)
CfgDefaults ==
    [v_mask |-> "dense", v_mask_density |-> Scale,
     w_mask |-> "dense", w_mask_density |-> Scale,
     t_mask |-> "dense", t_mask_density |-> Scale,
     clipping_range_min |-> Scale, clipping_range_max |-> -Scale]

\* ContinuousTimeRNNCfg(**configuration)
ContinuousTimeRNNCfg(configuration) ==
    [f \in DOMAIN CfgDefaults \cup DOMAIN configuration |->
        IF f \in DOMAIN configuration THEN configuration[f]
        ELSE CfgDefaults[f]]

\* configuration dicts: the required fields, and optional ones added
Configuration(delta_t, number_neurons) ==
    [type |-> "CTRNN", delta_t |-> delta_t, number_neurons |-> number_neurons]

WithMasks(c, v_mask, w_mask, t_mask, density) ==
    [v_mask |-> v_mask, v_mask_density |-> density,
     w_mask |-> w_mask, w_mask_density |-> density,
     t_mask |-> t_mask, t_mask_density |-> density] @@ c

WithClipping(c, lo, hi) ==
    [clipping_range_min |-> lo, clipping_range_max |-> hi] @@ c

(***************************************************************************)
(* Genome decoder (__init__).                                              *)
(***************************************************************************)
\* the cells in Fortran (column-major) order: what a CSC matrix would store
ColumnMajor(n, m) ==
    [k \in 1..(n * m) |-> <<((k - 1) % n) + 1, ((k - 1) \div n) + 1>>]

\* the cells of an n x m array in C (row-major) order
RowMajor(n, m) ==
    [k \in 1..(n * m) |-> <<((k - 1) \div m) + 1, ((k - 1) % m) + 1>>]

\* sparse.csr_matrix(mask, dtype=float): one stored 1.0 per true cell, rows
\* in order and columns in order within a row
csr_matrix(mask) ==
    LET pos == SelectSeq(RowMajor(mask.rows, mask.cols),
                         LAMBDA c : mask.at[c])
    IN  [rows |-> mask.rows, cols |-> mask.cols, pos |-> pos,
         data |-> [k \in 1..Len(pos) |-> Scale]]

EmptyCsr == csr_matrix(EmptyMat)

\* Python's s[a:b] for 0 <= a <= b
PySlice(s, a, b) ==
    IF a >= Min(b, Len(s)) THEN <<>> ELSE SubSeq(s, a + 1, Min(b, Len(s)))

\* numpy's data[:] = values: the lengths agree, or a single value is
\* broadcast; anything else raises ValueError
CanAssign(data, values) == Len(values) = Len(data) \/ Len(values) = 1

AssignAll(data, values) ==
    IF Len(values) = Len(data) THEN values
    ELSE [k \in 1..Len(data) |-> values[1]]

SetData(M, values) == [M EXCEPT !.data = AssignAll(M.data, values)]

\* __init__: the outcome and the fields of the new controller
Construct(ind, cfg, bs) ==
    LET masks  == get_masks_from_brain_state(bs)
        v_size == count_nonzero(masks[1])
        w_size == count_nonzero(masks[2])
        t_size == count_nonzero(masks[3])
        V0 == csr_matrix(masks[1])
        W0 == csr_matrix(masks[2])
        T0 == csr_matrix(masks[3])
        vs == PySlice(ind, 0, v_size)
        ws == PySlice(ind, v_size, v_size + w_size)
        ts == PySlice(ind, v_size + w_size, v_size + w_size + t_size)
        ok == /\ CanAssign(V0.data, vs)
              /\ CanAssign(W0.data, ws)
              /\ CanAssign(T0.data, ts)
              /\ cfg.number_neurons >= 0
    IN  IF ok
        THEN [outcome |-> "ok", V |-> SetData(V0, vs), W |-> SetData(W0, ws),
              T |-> SetData(T0, ts), x |-> Zeros(cfg.number_neurons)]
        ELSE [outcome |-> "ValueError", V |-> EmptyCsr, W |-> EmptyCsr,
              T |-> EmptyCsr, x |-> <<>>]

\* the dense view of a sparse matrix: entry (i, j), 0 where nothing is stored
Entry(M, c) ==
    IF \E k \in 1..Len(M.pos) : M.pos[k] = c
    THEN M.data[CHOOSE k \in 1..Len(M.pos) : M.pos[k] = c]
    ELSE 0

(***************************************************************************)
(* Dynamics engine (step, reset).                                          *)
(***************************************************************************)
\* np.tanh on fixed-point values: the Pade approximant
\* z (27 + z^2) / (27 + 9 z^2), rounded to the nearest unit, saturating at 1
Tanh(z) ==
    LET a   == Abs(z)
        num == a * (27 * Scale * Scale + a * a)
        den == 27 * Scale * Scale + 9 * a * a
        r   == Min(Scale, (2 * num + den) \div (2 * den))
    IN  IF z < 0 THEN -r ELSE r

TanhVec(v) == [i \in 1..Len(v) |-> Tanh(v[i])]

RECURSIVE RowDot(_, _, _, _)
\* the sum of data[k] * v[column k] over the stored entries k' <= k of row i
RowDot(M, v, i, k) ==
    IF k = 0 THEN 0
    ELSE RowDot(M, v, i, k - 1)
         + (IF M.pos[k][1] = i THEN FixMul(M.data[k], v[M.pos[k][2]]) ELSE 0)

\* M.dot(v) for a rank-1 v of length M.cols
Dot(M, v) == [i \in 1..M.rows |-> RowDot(M, v, i, Len(M.pos))]

\* a clip that applies the upper bound first
ClipUpperFirst(v, a_min, a_max) ==
    [i \in 1..Len(v) |-> Max(Min(v[i], a_max), a_min)]

\* np.clip(a, a_min, a_max) is minimum(maximum(a, a_min), a_max); the
\* bounds are not compared with each other
Clip(v, a_min, a_max) == [i \in 1..Len(v) |-> Min(Max(v[i], a_min), a_max)]

\* x + delta_t * dx_dt of lines 51-54
Euler(cfg, Vm, Wm, xv, u) ==
    LET dx_dt == [i \in 1..Len(xv) |->
                     Dot(Wm, TanhVec(xv))[i] + Dot(Vm, u)[i]]
    IN  [i \in 1..Len(xv) |-> xv[i] + FixMul(cfg.delta_t, dx_dt[i])]

\* step without its first assertion
StepOutcomeNoRankCheck(Vm, u) ==
    IF Len(u.data) # Vm.cols THEN "ValueError" ELSE "ok"

\* the exception step raises before it assigns anything, or "ok"
StepOutcome(Vm, u) ==
    IF u.ndim # 1 THEN "AssertionError"
    ELSE IF Len(u.data) # Vm.cols THEN "ValueError"
    ELSE "ok"

\* self.x after a step that raises nothing
StepX(cfg, Vm, Wm, xv, u) ==
    Clip(Euler(cfg, Vm, Wm, xv, u.data), cfg.clipping_range_min,
         cfg.clipping_range_max)

\* the value step returns, from the updated self.x
StepY(Tm, xv) == TanhVec(Dot(Tm, xv))

\* a reset that leaves the hidden state as it is
ResetKeepsX(cfg) == x

\* self.x after reset()
ResetX(cfg) == Zeros(cfg.number_neurons)

(***************************************************************************)
(* Input sets.                                                             *)
(***************************************************************************)
\* <<number_neurons, number_inputs, number_outputs>>
Shapes ==
    {s \in (1..MaxDim) \X (1..MaxDim) \X (1..MaxDim) :
        s[1] * s[2] + s[1] * s[1] + s[3] * s[1] <= MaxCells}

BrainStatesOf(s) ==
    {get_brain_state_from_masks(v, w, t) :
        v \in AllMasks(s[1], s[2]), w \in AllMasks(s[1], s[1]),
        t \in AllMasks(s[3], s[1])}

BrainStates == UNION {BrainStatesOf(s) : s \in Shapes}

\* genomes with pairwise different neighbouring values in [-1, 1]
Genome(len, off) ==
    [k \in 1..len |-> ((off + 2 * k) % (2 * Scale + 1)) - Scale]

\* step arguments: the rank-1 arrays of ni entries that are all 1 or
\* alternate from -1, rank-1 arrays of ni - 1 and ni + 1 entries, a rank-0
\* and a rank-2 array
StepArgs(ni) ==
    {[ndim |-> 1, data |-> [k \in 1..ni |-> Scale]],
     [ndim |-> 1, data |-> [k \in 1..ni |-> IF k % 2 = 0 THEN Scale
                                            ELSE -Scale]],
     [ndim |-> 1, data |-> [k \in 1..(ni - 1) |-> Scale]],
     [ndim |-> 1, data |-> [k \in 1..(ni + 1) |-> Scale]],
     [ndim |-> 0, data |-> <<Scale>>],
     [ndim |-> 2, data |-> [k \in 1..ni |-> Scale]]}

Paths == {<<"Brain_State">>, <<"Brain_State", ".npz">>, <<"Other", ".npz">>}

(***************************************************************************)
(* Actions: one per call.                                                  *)
(***************************************************************************)
codec_vars == <<files, path, saved_path, saved_bs>>
run_vars == <<pre_x, u_arg, ep_in, ep_out, ref_in, ref_out>>
ctrl_vars == <<constructed, V, W, T, x>>
input_vars == <<config, number_inputs, number_outputs, individual>>

\* values returned by calls other than the current one are dropped
NoReturn ==
    /\ y' = <<>>
    /\ loaded' = EmptyState
    /\ usage' = [V |-> 0, W |-> 0, T |-> 0]
    /\ individual_size' = 0

\* ContinuousTimeRNN.generate_brain_state(number_inputs, number_outputs,
\* configuration)
GenerateBrainState ==
    LET n  == config.number_neurons
        ov == generate_mask_outcome(config.v_mask, n, number_inputs, FALSE)
        ow == generate_mask_outcome(config.w_mask, n, n, TRUE)
        ot == generate_mask_outcome(config.t_mask, number_outputs, n, FALSE)
        o  == IF ov # "ok" THEN ov ELSE IF ow # "ok" THEN ow ELSE ot
    IN  /\ last_op' = "generate_brain_state"
        /\ outcome' = o
        /\ IF o = "ok"
           THEN \E v \in generate_mask(config.v_mask, n, number_inputs,
                                       config.v_mask_density, FALSE),
                   w \in generate_mask(config.w_mask, n, n,
                                       config.w_mask_density, TRUE),
                   t \in generate_mask(config.t_mask, number_outputs, n,
                                       config.t_mask_density, FALSE) :
                    brain_state' = get_brain_state_from_masks(v, w, t)
           ELSE UNCHANGED brain_state
        /\ NoReturn
        /\ UNCHANGED <<input_vars, ctrl_vars, codec_vars, run_vars>>

\* ContinuousTimeRNN.get_free_parameter_usage(brain_state)
GetFreeParameterUsage ==
    /\ last_op' = "get_free_parameter_usage"
    /\ outcome' = "ok"
    /\ usage' = get_free_parameter_usage(brain_state)
    /\ y' = <<>>
    /\ loaded' = EmptyState
    /\ individual_size' = 0
    /\ UNCHANGED <<brain_state, input_vars, ctrl_vars, codec_vars, run_vars>>

\* ContinuousTimeRNN.get_individual_size(brain_state)
GetIndividualSize ==
    /\ last_op' = "get_individual_size"
    /\ outcome' = "ok"
    /\ individual_size' = get_individual_size(brain_state)
    /\ y' = <<>>
    /\ loaded' = EmptyState
    /\ usage' = [V |-> 0, W |-> 0, T |-> 0]
    /\ UNCHANGED <<brain_state, input_vars, ctrl_vars, codec_vars, run_vars>>

\* ContinuousTimeRNN.save_brain_state(path, brain_state)
SaveBrainState ==
    \E p \in Paths :
        /\ last_op' = "save_brain_state"
        /\ outcome' = "ok"
        /\ files' = WriteFile(SavezFileName(p), NpzEncode(brain_state))
        /\ path' = p
        /\ saved_path' = p
        /\ saved_bs' = brain_state
        /\ NoReturn
        /\ UNCHANGED <<brain_state, input_vars, ctrl_vars, run_vars>>

\* ContinuousTimeRNN.load_brain_state(path)
LoadBrainState ==
    \E p \in Paths :
        /\ last_op' = "load_brain_state"
        /\ path' = p
        /\ IF p \in FileNames
           THEN /\ outcome' = "ok"
                /\ loaded' = NpzDecode(FileContent(p))
           ELSE /\ outcome' = "FileNotFoundError"
                /\ loaded' = EmptyState
        /\ y' = <<>>
        /\ usage' = [V |-> 0, W |-> 0, T |-> 0]
        /\ individual_size' = 0
        /\ UNCHANGED <<brain_state, input_vars, ctrl_vars, files, saved_path,
                       saved_bs, run_vars>>

\* ContinuousTimeRNN(individual, configuration, brain_state)
DoConstruct ==
    LET c == Construct(individual, config, brain_state)
    IN  /\ ~constructed
        /\ last_op' = "construct"
        /\ outcome' = c.outcome
        /\ constructed' = (c.outcome = "ok")
        /\ V' = c.V
        /\ W' = c.W
        /\ T' = c.T
        /\ x' = c.x
        /\ pre_x' = <<>>
        /\ NoReturn
        /\ UNCHANGED <<brain_state, input_vars, codec_vars, u_arg, ep_in,
                       ep_out, ref_in, ref_out>>

\* brain.step(u)
Step ==
    \E u \in StepArgs(V.cols) :
        LET o == StepOutcome(V, u)
        IN  /\ constructed
            /\ Len(ep_in) < MaxSteps
            /\ last_op' = "step"
            /\ outcome' = o
            /\ u_arg' = u
            /\ pre_x' = x
            /\ IF o = "ok"
               THEN /\ x' = StepX(config, V, W, x, u)
                    /\ y' = StepY(T, x')
                    /\ ep_in' = Append(ep_in, u.data)
                    /\ ep_out' = Append(ep_out, y')
               ELSE /\ y' = <<>>
                    /\ UNCHANGED <<x, ep_in, ep_out>>
            /\ loaded' = EmptyState
            /\ usage' = [V |-> 0, W |-> 0, T |-> 0]
            /\ individual_size' = 0
            /\ UNCHANGED <<brain_state, input_vars, constructed, V, W, T,
                           codec_vars, ref_in, ref_out>>

\* brain.reset().  A run of MaxSteps steps that ends here may be kept as the
\* recorded run, once, to compare later runs with.
Reset ==
    /\ constructed
    /\ last_op' = "reset"
    /\ outcome' = "ok"
    /\ pre_x' = x
    /\ x' = ResetX(config)
    /\ ep_in' = <<>>
    /\ ep_out' = <<>>
    /\ \/ UNCHANGED <<ref_in, ref_out>>
       \/ /\ ref_in = <<>>
          /\ Len(ep_in) = MaxSteps
          /\ ref_in' = ep_in
          /\ ref_out' = ep_out
    /\ NoReturn
    /\ u_arg' = [ndim |-> 1, data |-> <<>>]
    /\ UNCHANGED <<brain_state, input_vars, constructed, V, W, T, codec_vars>>

(***************************************************************************)
(* Specifications.                                                         *)
(***************************************************************************)
\* the variables no call has touched yet
Fresh ==
    /\ constructed = FALSE
    /\ V = EmptyCsr /\ W = EmptyCsr /\ T = EmptyCsr
    /\ x = <<>> /\ y = <<>>
    /\ outcome = "ok" /\ last_op = "init"
    /\ files = {} /\ path = <<>> /\ saved_path = <<>>
    /\ saved_bs = EmptyState /\ loaded = EmptyState
    /\ usage = [V |-> 0, W |-> 0, T |-> 0]
    /\ individual_size = 0
    /\ pre_x = <<>> /\ u_arg = [ndim |-> 1, data |-> <<>>]
    /\ ep_in = <<>> /\ ep_out = <<>> /\ ref_in = <<>> /\ ref_out = <<>>

\* Mask generation: every mask type (one of them unknown), three densities,
\* every shape, and a neuron count that may be zero or negative.
GenTypes == {"dense", "random", "banded"}
GenDensities == {0, Scale \div 2, Scale}

InitGen ==
    /\ Fresh
    /\ \E s \in Shapes, tv \in GenTypes, tw \in GenTypes, tt \in GenTypes,
          d \in GenDensities, nn \in {-1, 0} \cup (1..MaxDim) :
        /\ nn >= 1 => nn = s[1]
        /\ config = ContinuousTimeRNNCfg(
                        WithMasks(Configuration(Scale, nn), tv, tw, tt, d))
        /\ number_inputs = s[2]
        /\ number_outputs = s[3]
    /\ brain_state = EmptyState
    /\ individual = <<>>

NextGen == GenerateBrainState \/ GetFreeParameterUsage \/ GetIndividualSize

SpecGen == InitGen /\ [][NextGen]_vars

\* State codec: every brain state, and a file system that may already hold
\* an older brain state under any of the names.
OldState == get_brain_state_from_masks(Ones(1, 1), Ones(1, 1), Ones(1, 1))

InitCodec ==
    /\ constructed = FALSE
    /\ V = EmptyCsr /\ W = EmptyCsr /\ T = EmptyCsr
    /\ x = <<>> /\ y = <<>>
    /\ outcome = "ok" /\ last_op = "init"
    /\ files \in SUBSET {[name |-> p, content |-> NpzEncode(OldState)] :
                            p \in Paths}
    /\ path = <<>> /\ saved_path = <<>>
    /\ saved_bs = EmptyState /\ loaded = EmptyState
    /\ usage = [V |-> 0, W |-> 0, T |-> 0]
    /\ individual_size = 0
    /\ pre_x = <<>> /\ u_arg = [ndim |-> 1, data |-> <<>>]
    /\ ep_in = <<>> /\ ep_out = <<>> /\ ref_in = <<>> /\ ref_out = <<>>
    /\ brain_state \in BrainStates
    /\ config = ContinuousTimeRNNCfg(
                    Configuration(Scale, brain_state.w_mask.rows))
    /\ number_inputs = brain_state.v_mask.cols
    /\ number_outputs = brain_state.t_mask.rows
    /\ individual = <<>>

NextCodec == SaveBrainState \/ LoadBrainState

SpecCodec == InitCodec /\ [][NextCodec]_vars

\* Genome decoding: every brain state, genomes of every length up to
\* MaxSlack more than the masks hold, and configurations with a zero time
\* step, a non-positive neuron count or an unknown mask type.
CtorConfigs(n) ==
    {ContinuousTimeRNNCfg(c) :
        c \in {Configuration(Scale, n), Configuration(0, n),
               Configuration(-Scale, n), Configuration(Scale, 0),
               Configuration(Scale, -1),
               WithMasks(Configuration(Scale, n), "banded", "dense", "dense",
                         Scale)}}

InitCtor ==
    /\ Fresh
    /\ brain_state \in BrainStates
    /\ config \in CtorConfigs(brain_state.w_mask.rows)
    /\ number_inputs = brain_state.v_mask.cols
    /\ number_outputs = brain_state.t_mask.rows
    /\ \E len \in 0..(get_individual_size(brain_state) + MaxSlack),
          off \in 0..MaxOffset :
        individual = Genome(len, off)

NextCtor == DoConstruct \/ GetFreeParameterUsage \/ GetIndividualSize

SpecCtor == InitCtor /\ [][NextCtor]_vars

\* Dynamics: for every shape the dense brain state and the one that keeps
\* only the main diagonals, a genome of the right length, two time steps,
\* and every clipping range with bounds in {-1, 1}, the default (1, -1)
\* among them.
Diagonal(n, m) == Mat(n, m, [c \in Cells(n, m) |-> c[1] = c[2]])

DynStates ==
    UNION {{get_brain_state_from_masks(Ones(s[1], s[2]), Ones(s[1], s[1]),
                                       Ones(s[3], s[1])),
            get_brain_state_from_masks(Diagonal(s[1], s[2]),
                                       Diagonal(s[1], s[1]),
                                       Diagonal(s[3], s[1]))} : s \in Shapes}

DynConfigs(n) ==
    {ContinuousTimeRNNCfg(WithClipping(Configuration(dt, n), lo, hi)) :
        dt \in {1, Scale}, lo \in {-Scale, Scale}, hi \in {-Scale, Scale}}

InitDyn ==
    /\ Fresh
    /\ brain_state \in DynStates
    /\ config \in DynConfigs(brain_state.w_mask.rows)
    /\ number_inputs = brain_state.v_mask.cols
    /\ number_outputs = brain_state.t_mask.rows
    /\ \E off \in 0..MaxOffset :
        individual = Genome(get_individual_size(brain_state), off)

NextDyn == DoConstruct \/ Step \/ Reset

SpecDyn == InitDyn /\ [][NextDyn]_vars

(***************************************************************************)
(* Properties.                                                             *)
(***************************************************************************)
\* the number of true cells of mask up to and including c, in row-major
\* order
RankInMask(mask, c) ==
    Cardinality({d \in Cells(mask.rows, mask.cols) :
                    /\ mask.at[d]
                    /\ (d[1] < c[1] \/ (d[1] = c[1] /\ d[2] <= c[2]))})

\* M has the mask's shape, holds individual[base + k] at the k-th true cell
\* and 0 at every false cell
DecodedFrom(M, mask, base) ==
    /\ M.rows = mask.rows
    /\ M.cols = mask.cols
    /\ \A c \in Cells(mask.rows, mask.cols) :
          Entry(M, c) = IF mask.at[c]
                        THEN individual[base + RankInMask(mask, c)]
                        ELSE 0

MaskTotal(bs) ==
    count_nonzero(bs.v_mask) + count_nonzero(bs.w_mask)
    + count_nonzero(bs.t_mask)

\* C1: a controller built from a genome of exactly the masks' total nonzero
\* count holds the genome in the true cells of V, then W, then T, each in
\* row-major order, and 0 in every false cell.
C1_GenomeFillsMasksInOrder ==
    (constructed /\ Len(individual) = MaskTotal(brain_state)) =>
        /\ DecodedFrom(V, brain_state.v_mask, 0)
        /\ DecodedFrom(W, brain_state.w_mask, count_nonzero(brain_state.v_mask))
        /\ DecodedFrom(T, brain_state.t_mask,
                       count_nonzero(brain_state.v_mask)
                       + count_nonzero(brain_state.w_mask))

\* a controller decoded from a 2 x 2 recurrent mask with a hole in its first
\* row, so that row-major and column-major orders differ
C1_Witness ==
    /\ constructed
    /\ Len(individual) = MaskTotal(brain_state)
    /\ brain_state.w_mask.rows = 2
    /\ count_nonzero(brain_state.w_mask) = 3
    /\ ~brain_state.w_mask.at[<<1, 2>>]
    /\ count_nonzero(brain_state.v_mask) >= 1
    /\ count_nonzero(brain_state.t_mask) >= 1

\* C2: constructing with a genome whose length differs from the masks'
\* total nonzero count fails.
C2_LengthMismatchFails ==
    (last_op = "construct" /\ Len(individual) # MaskTotal(brain_state)) =>
        (outcome # "ok" /\ ~constructed)

\* C3: generate_brain_state with the three mask types dense returns three
\* all-true masks of shapes (neurons x inputs), (neurons x neurons),
\* (outputs x neurons), whatever the densities.
C3_DenseMasksAllTrue ==
    (/\ last_op = "generate_brain_state"
     /\ outcome = "ok"
     /\ config.v_mask = "dense"
     /\ config.w_mask = "dense"
     /\ config.t_mask = "dense") =>
        brain_state =
            get_brain_state_from_masks(
                Ones(config.number_neurons, number_inputs),
                Ones(config.number_neurons, config.number_neurons),
                Ones(number_outputs, config.number_neurons))

\* C4, as claimed: load_brain_state(path) after save_brain_state(path, bs)
\* returns bs, for every path.
C4_RoundTripEveryPath ==
    (last_op = "load_brain_state" /\ saved_path # <<>> /\ path = saved_path)
        => (outcome = "ok" /\ loaded = saved_bs)

\* C4, amended: load_brain_state(path) after save_brain_state(path, bs)
\* returns bs when the path ends with .npz.
C4_RoundTripNpzPath ==
    (/\ last_op = "load_brain_state"
     /\ saved_path # <<>>
     /\ path = saved_path
     /\ EndsWithNpz(path)) =>
        (outcome = "ok" /\ loaded = saved_bs)

\* a 2 x 2 recurrent mask with a single hole read back from the path it was
\* saved to, over an older file of that name
C4_Witness ==
    /\ last_op = "load_brain_state"
    /\ path = saved_path
    /\ EndsWithNpz(path)
    /\ loaded.w_mask.rows = 2
    /\ count_nonzero(loaded.w_mask) = 3
    /\ ~loaded.w_mask.at[<<2, 1>>]
    /\ Cardinality(files) = 3

\* C5: get_individual_size is the masks' total nonzero count and the sum of
\* get_free_parameter_usage's values, whose V, W, T entries are the lengths
\* of the three genome slices the constructor stored.
C5_SizeAccounting ==
    /\ last_op = "get_individual_size" =>
          /\ individual_size = MaskTotal(brain_state)
          /\ LET fpu == get_free_parameter_usage(brain_state)
             IN  individual_size = fpu.V + fpu.W + fpu.T
    /\ last_op = "get_free_parameter_usage" =>
          /\ usage.V + usage.W + usage.T = get_individual_size(brain_state)
          /\ usage.V = count_nonzero(brain_state.v_mask)
          /\ usage.W = count_nonzero(brain_state.w_mask)
          /\ usage.T = count_nonzero(brain_state.t_mask)
          /\ constructed =>
                /\ Len(V.data) = usage.V
                /\ Len(W.data) = usage.W
                /\ Len(T.data) = usage.T
          /\ (constructed /\ Len(individual) >= MaskTotal(brain_state)) =>
                /\ V.data = SubSeq(individual, 1, usage.V)
                /\ W.data = SubSeq(individual, usage.V + 1,
                                   usage.V + usage.W)
                /\ T.data = SubSeq(individual, usage.V + usage.W + 1,
                                   usage.V + usage.W + usage.T)

\* the usage of a brain state with three different group counts, asked for
\* after a controller was built from it
C5_Witness ==
    /\ last_op = "get_free_parameter_usage"
    /\ constructed
    /\ Len(individual) = MaskTotal(brain_state)
    /\ usage.V = 1
    /\ usage.W = 3
    /\ usage.T = 2

\* C6: reset() sets x to the zero vector of length number_neurons and
\* changes nothing else of the controller; straight after a reset it
\* changes nothing at all.
C6_ResetZeroesOnlyX ==
    [][last_op' = "reset" =>
          /\ Len(x') = config.number_neurons
          /\ \A i \in 1..Len(x') : x'[i] = 0
          /\ V' = V /\ W' = W /\ T' = T /\ config' = config
          /\ last_op = "reset" => x' = x]_vars

\* a reset of a two-neuron controller whose hidden state was not zero
C6_Witness ==
    /\ last_op = "reset"
    /\ Len(pre_x) = 2
    /\ pre_x[1] # 0
    /\ pre_x[2] # 0
    /\ x = <<0, 0>>

\* C7: step(u) with u not rank-1, or of a length other than V's column
\* count, fails and leaves x, V, W, T as they were.
C7_FailedStepChangesNothing ==
    [][(/\ last_op' = "step"
        /\ (u_arg'.ndim # 1 \/ Len(u_arg'.data) # V.cols)) =>
          /\ outcome' # "ok"
          /\ x' = x /\ V' = V /\ W' = W /\ T' = T]_vars

\* a step with a rank-2 argument refused by a controller whose hidden state
\* had moved away from zero
C7_Witness ==
    /\ last_op = "step"
    /\ u_arg.ndim = 2
    /\ Len(u_arg.data) = V.cols
    /\ outcome = "AssertionError"
    /\ \E i \in 1..Len(x) : x[i] # 0

IsPrefix(s, t) == Len(s) <= Len(t) /\ s = SubSeq(t, 1, Len(s))

\* C8: the outputs of the steps made since the controller was last zeroed
\* are those an earlier run gave for the same inputs (runs start at a reset,
\* or at construction, which zeroes x as well).
C8_RunsRepeat ==
    IsPrefix(ep_in, ref_in) => ep_out = SubSeq(ref_out, 1, Len(ep_in))

\* a later run that repeats the recorded run's inputs in full, with outputs
\* that differ from step to step
C8_Witness ==
    /\ ref_in # <<>>
    /\ ep_in = ref_in
    /\ Len(ep_in) = MaxSteps
    /\ last_op = "step"
    /\ ep_out[1] # ep_out[2]
    /\ Len(x) = 2

\* C9: constructing with delta_t <= 0, number_neurons <= 0 or a mask type
\* outside {dense, random} fails and yields no controller.
C9_InvalidConfigurationFails ==
    (/\ last_op = "construct"
     /\ \/ config.delta_t <= 0
        \/ config.number_neurons <= 0
        \/ config.v_mask \notin MaskTypes
        \/ config.w_mask \notin MaskTypes
        \/ config.t_mask \notin MaskTypes) =>
        (outcome # "ok" /\ ~constructed)

\* C10: after a successful step each component of x is
\* min(max(v, clipping_range_min), clipping_range_max) for the Euler value v
\* of the pre-step x; it lies in the range when min <= max, and is
\* clipping_range_max when min > max, and then every output is the same.
C10_ClipRule ==
    (last_op = "step" /\ outcome = "ok") =>
        LET lo == config.clipping_range_min
            hi == config.clipping_range_max
            v  == Euler(config, V, W, pre_x, u_arg.data)
            top == [i \in 1..Len(x) |-> hi]
        IN  /\ Len(x) = Len(pre_x)
            /\ \A i \in 1..Len(x) :
                  x[i] = IF (IF v[i] >= lo THEN v[i] ELSE lo) <= hi
                         THEN (IF v[i] >= lo THEN v[i] ELSE lo)
                         ELSE hi
            /\ lo <= hi => \A i \in 1..Len(x) : lo <= x[i] /\ x[i] <= hi
            /\ lo > hi =>
                  /\ \A i \in 1..Len(x) : x[i] = hi
                  /\ y = TanhVec(Dot(T, top))
                  /\ \A k \in 1..Len(ep_out) : ep_out[k] = y
                  /\ \A k \in 1..Len(ref_out) : ref_out[k] = y

\* the second step of a run under the default range (1, -1), with an Euler
\* value that is not the upper bound
C10_Witness ==
    /\ last_op = "step"
    /\ outcome = "ok"
    /\ config.clipping_range_min > config.clipping_range_max
    /\ Len(ep_out) = 2
    /\ Len(x) = 2
    /\ \E i \in 1..Len(x) :
          Euler(config, V, W, pre_x, u_arg.data)[i]
              # config.clipping_range_max

====
